---- MODULE Spec2Model ----
(***************************************************************************)
(* Model of the trusted-spoke relay lambda                                 *)
(* (src/trusted-spoke/lambda/index.py): one invocation of lambda_handler,  *)
(* stepping through get_onprem_credentials, the two trigger paths,         *)
(* process_s3_event, transfer_file_to_onprem and send_metrics.             *)
(*                                                                         *)
(* The trigger payload is read in the order the handler iterates it: the   *)
(* shape (queued notification or scheduled scan) and the number of outer   *)
(* records are fixed in Init, each record's content is chosen when the     *)
(* handler reaches it.  Every call to an external service (secret store,   *)
(* object store, SFTP endpoint, metrics backend, local /tmp) may fail.     *)
(*                                                                         *)
(* Spec follows one invocation; create_remote_directory is one step of it  *)
(* that succeeds or raises.  SpecDir follows create_remote_directory       *)
(* itself, stat by stat and mkdir by mkdir, for two invocations that       *)
(* deliver to the same destination.                                        *)
(***************************************************************************)
EXTENDS Integers, Sequences, FiniteSets, TLC

\* ------------------------------------------------------------------ bounds
MaxRecords == 2      \* outer (queue) records per payload
MaxInner   == 1      \* inner (object-store) records per queue record body
MaxTicks   == 1      \* UTC hour changes during the invocation
MaxFiles   == 2      \* created records per payload
MaxCalls   == 3      \* create_remote_directory calls followed, all invocations together

\* ------------------------------------------------- strings as the code sees
\* Event names are sequences of tokens so that startswith is a real prefix test.
CreatedPrefix == <<"Object", "Created">>

StartsWith(s, p) ==
    /\ Len(s) >= Len(p)
    /\ SubSeq(s, 1, Len(p)) = p

\* Keys are sequences of path components (the text between '/').
\* unquote_plus on one component: '+' becomes ' ', %XX is decoded.
UnquoteComponent(c) ==
    CASE c = "other+dir" -> "other dir"
      [] c = "b+c.csv"   -> "b c.csv"
      [] c = "b%2Bc.csv" -> "b+c.csv"
      [] OTHER           -> c

unquote_plus(k) == [n \in 1..Len(k) |-> UnquoteComponent(k[n])]

\* variant: the first component of the key instead of the last
basename_first(k) == IF Len(k) = 0 THEN "" ELSE k[1]

basename(k) == IF Len(k) = 0 THEN "" ELSE k[Len(k)]

\* variant: the parent of a directory is the directory itself
dirname_stay(p) == p

dirname(p) == IF Len(p) = 0 THEN <<>> ELSE SubSeq(p, 1, Len(p) - 1)

\* get_current_path: strftime("%Y/%m/%d/%H") of the UTC clock.  The clock counts
\* hours from 2024-01-02 23:00 UTC, so one tick crosses a day boundary.
Epoch == [day |-> 2, hour |-> 23]

Digit == <<"0", "1", "2", "3", "4", "5", "6", "7", "8", "9">>

TwoDigits(n) == Digit[(n \div 10) + 1] \o Digit[(n % 10) + 1]

get_current_path(clock) ==
    << "2024", "01",
       TwoDigits(Epoch.day + ((Epoch.hour + clock) \div 24)),
       TwoDigits((Epoch.hour + clock) % 24) >>

\* f"/From_AWS/{get_current_path()}/{file_name}" as absolute path components
RemotePath(clock, file_name) ==
    <<"From_AWS">> \o get_current_path(clock) \o <<file_name>>

\* ------------------------------------------------------------ environment
Locations == {"op1", "op2"}

\* Keys as they appear in queued notifications (URL-encoded by the object store)
EventKeys ==
    { <<"in", "a.csv">>, <<"other+dir", "a.csv">> }

\* Objects of the trusted bucket, in listing (UTF-8 binary) order
BucketListing ==
    << <<"2024", "01", "02", "22", "old.csv">>,
       <<"2024", "01", "02", "23", "a.csv">>,
       <<"2024", "01", "02", "23", "b+c.csv">>,
       <<"2024", "01", "03", "00", "a.csv">>,
       <<"in", "a.csv">>,
       <<"other dir", "a.csv">> >>

Bucket == {BucketListing[n] : n \in 1..Len(BucketListing)}

\* Inner records of a queue record body: eventSource, eventName (absent ones
\* read as "missing" / the empty name), whether s3.bucket.name and
\* s3.object.key are present, and the key.
Rec(src, name, s3, k) ==
    [eventSource |-> src, eventName |-> name, has_s3 |-> s3, key |-> k]

InnerRecords ==
    { Rec("aws:s3", <<"Object", "Created", ":", "Put">>, TRUE, k) : k \in EventKeys }
    \cup
    { Rec("aws:s3", <<"Object", "Created">>, TRUE, <<"in", "a.csv">>),
      Rec("aws:s3", <<"Object", "Created", ":", "Put">>, FALSE, <<>>),
      Rec("aws:s3", <<"Object", "Removed", ":", "Delete">>, TRUE, <<"in", "a.csv">>),
      Rec("aws:s3", <<"Object">>, TRUE, <<"in", "a.csv">>),
      Rec("aws:s3", <<>>, TRUE, <<"in", "a.csv">>),
      Rec("aws:sqs", <<"Object", "Created", ":", "Put">>, TRUE, <<"in", "a.csv">>),
      Rec("missing", <<"Object", "Created", ":", "Put">>, TRUE, <<"in", "a.csv">>),
      Rec("missing", <<>>, FALSE, <<>>) }

NoRecord == Rec("none", <<>>, FALSE, <<>>)

\* Outer (queue) records: no 'body' key, a body that is not JSON, a JSON body
\* without 'Records', a JSON body with a list of inner records.
OuterKinds == {"no_body", "bad_json", "no_records", "records"}

\* What the secret store answers: the call fails, the SecretString is not
\* JSON, or it parses to a mapping from key names to values.
CredKeys == {"op1_host", "op1_port", "op2_host", "op2_port"}

FullSecret ==
    [k \in CredKeys |->
        CASE k = "op1_host" -> "10.0.0.1"
          [] k = "op1_port" -> "22"
          [] k = "op2_host" -> "10.0.0.2"
          [] k = "op2_port" -> "2222"]

Without(secret, k) == [x \in (DOMAIN secret) \ {k} |-> secret[x]]

EmptySecret == [x \in {} |-> ""]

SecretAnswers ==
    { [kind |-> "unavailable", value |-> EmptySecret],
      [kind |-> "not_json",    value |-> EmptySecret],
      [kind |-> "json",        value |-> FullSecret],
      [kind |-> "json",        value |-> Without(FullSecret, "op1_host")],
      [kind |-> "json",        value |-> [FullSecret EXCEPT !["op2_port"] = "sftp"]] }

\* int(x) succeeds on the decimal strings used here
IsIntString(v) == v \in {"22", "2222"}

\* Body and ContentLength of the objects of the bucket
ObjectBytes(k) ==
    CASE k = <<"in", "a.csv">>        -> "bytes:in/a"
      [] k = <<"other dir", "a.csv">> -> "bytes:other dir/a"
      [] Len(k) = 5 /\ k[4] = "23" -> IF k[5] = "a.csv" THEN "bytes:23/a" ELSE "bytes:23/b+c"
      [] Len(k) = 5 /\ k[4] = "00" -> "bytes:00/a"
      [] OTHER                     -> "bytes:old"

ObjectSize(k) == IF basename(k) = "a.csv" THEN 120 ELSE 7

\* ------------------------------------------- a destination's directory tree
\* The invocations that deliver to the same destination at the same time
Invocations == {"inv1", "inv2"}

Root == <<>>      \* '/'

\* the directories from below '/' down to d
Chain(d) == {SubSeq(d, 1, n) : n \in 1..Len(d)}

\* remote_dir of the deliveries of each hour, and every directory above it
RemoteDirs == UNION {Chain(dirname(RemotePath(c, "a.csv"))) : c \in 0..MaxTicks}

\* A directory exists only inside an existing directory; '/' always exists.
IsTree(fs) == \A d \in fs : Chain(d) \subseteq fs

Trees == {fs \in SUBSET RemoteDirs : IsTree(fs)}

Exists(fs, d) == d = Root \/ d \in fs

\* variants: the existence test never raises; the existence test always raises
sftp_stat_always(fs, d) == TRUE

sftp_stat_never(fs, d) == FALSE

\* sftp.stat(remote_dir), line 100: TRUE when it returns, FALSE when it raises
\* IOError (no such file)
sftp_stat(fs, d) == Exists(fs, d)

\* sftp.mkdir(remote_dir), line 104: the server refuses a directory that exists
\* and a directory whose parent does not
sftp_mkdir(fs, d) ==
    CASE d \in fs                  -> [raised |-> TRUE,  why |-> "exists",    fs |-> fs]
      [] ~Exists(fs, dirname(d))   -> [raised |-> TRUE,  why |-> "no_parent", fs |-> fs]
      [] OTHER                     -> [raised |-> FALSE, why |-> "none",      fs |-> fs \cup {d}]

\* list_objects_v2(Bucket, Prefix), lines 213-216: the keys that begin with the
\* prefix, in listing order
list_objects_v2(prefix) ==
    SelectSeq(BucketListing, LAMBDA k : StartsWith(k, prefix))

\* --------------------------------------------------- the code's pure parts
Outcome(raised, value) == [raised |-> raised, value |-> value]

\* variant: the except clause logs and returns an empty mapping
get_onprem_credentials_swallowed(answer) ==
    IF answer.kind = "json"
    THEN Outcome(FALSE, answer.value)
    ELSE Outcome(FALSE, EmptySecret)

\* variant: the mapping loaded by an earlier invocation is returned
get_onprem_credentials_cached(answer) == Outcome(FALSE, FullSecret)

\* get_onprem_credentials (lines 23-33): the parsed secret, or the exception
\* re-raised by the except clause.
get_onprem_credentials(answer) ==
    IF answer.kind = "json"
    THEN Outcome(FALSE, answer.value)
    ELSE Outcome(TRUE, EmptySecret)

\* variant: no try/except around put_metric_data
send_metrics_unguarded(accepted) == Outcome(~accepted, accepted)

\* send_metrics (lines 35-43): returns normally whether or not the backend
\* accepted the data.
send_metrics(accepted) == Outcome(FALSE, accepted)

\* variant: the filter tests the event name only
is_created_record_by_name(rec) == StartsWith(rec.eventName, CreatedPrefix)

\* the filter of line 201
is_created_record(rec) ==
    /\ rec.eventSource = "aws:s3"
    /\ StartsWith(rec.eventName, CreatedPrefix)

\* variant: any() instead of all()
overall_success_any(status) == \E l \in DOMAIN status : status[l]

\* all(locations_status.values()), line 135
overall_success(status) == \A l \in DOMAIN status : status[l]

\* variants: the except clause re-raises; the except clause returns True
transfer_except_reraise == Outcome(TRUE, FALSE)

transfer_except_true == Outcome(FALSE, TRUE)

\* the except clause of transfer_file_to_onprem, lines 86-88
transfer_except == Outcome(FALSE, FALSE)

\* variant: no cleanup
transfer_finally_none(fs, path) == fs

\* the finally clause of transfer_file_to_onprem, lines 89-92
transfer_finally(fs, path) == {f \in fs : f.name /= path}

\* variant: the except clause re-raises
process_except_reraise == Outcome(TRUE, FALSE)

\* the except clause of process_s3_event, lines 173-175
process_except == Outcome(FALSE, FALSE)

\* uuid.uuid4(): a name no file of /tmp has
uuid4(fs) == CHOOSE n \in 0..Cardinality(fs) : \A f \in fs : f.name /= n

\* variant: TransferSuccess does not look at the result
object_metrics_unconditional(file_name, duration, file_size, success) ==
    << [MetricName |-> "ExecutionTime",   Value |-> duration,  FileName |-> file_name],
       [MetricName |-> "FileSize",        Value |-> file_size, FileName |-> file_name],
       [MetricName |-> "TransferSuccess", Value |-> 1,         FileName |-> file_name] >>

\* per-object metrics, lines 139-158
object_metrics(file_name, duration, file_size, success) ==
    << [MetricName |-> "ExecutionTime",   Value |-> duration,  FileName |-> file_name],
       [MetricName |-> "FileSize",        Value |-> file_size, FileName |-> file_name],
       [MetricName |-> "TransferSuccess", Value |-> IF success THEN 1 ELSE 0,
        FileName |-> file_name] >>

\* (successful_files / total_files) * 100, kept to 1/100 of a percent
success_rate(successful, total) == (successful * 10000) \div total

\* variant: the rate is appended when successful_files > 0
batch_metrics_if_successful(duration, total, successful) ==
    << [MetricName |-> "BatchExecutionTime",   Value |-> duration,   FileName |-> ""],
       [MetricName |-> "BatchFilesProcessed",  Value |-> total,      FileName |-> ""],
       [MetricName |-> "BatchFilesSuccessful", Value |-> successful, FileName |-> ""] >>
    \o
    ( IF successful > 0
      THEN << [MetricName |-> "BatchSuccessRate",
               Value |-> success_rate(successful, total), FileName |-> ""] >>
      ELSE << >> )

\* batch metrics, lines 238-261 (batch metrics carry no dimension)
batch_metrics(duration, total, successful) ==
    << [MetricName |-> "BatchExecutionTime",   Value |-> duration,   FileName |-> ""],
       [MetricName |-> "BatchFilesProcessed",  Value |-> total,      FileName |-> ""],
       [MetricName |-> "BatchFilesSuccessful", Value |-> successful, FileName |-> ""] >>
    \o
    ( IF total > 0
      THEN << [MetricName |-> "BatchSuccessRate",
               Value |-> success_rate(successful, total), FileName |-> ""] >>
      ELSE << >> )

MetricNames(data) == {data[n].MetricName : n \in 1..Len(data)}

\* the response of lines 267-275
report(total, successful, duration) ==
    [statusCode |-> 200, total_files |-> total, successful_files |-> successful,
     processing_time |-> duration]

NoReport == [statusCode |-> 0, total_files |-> 0, successful_files |-> 0, processing_time |-> 0]

\* ------------------------------------------------------------------ state
VARIABLES
    event_kind,        \* "sqs": payload has 'Records'; "scan": it has not
    nrec,              \* len(event['Records'])
    secret,            \* what the secret store answers in this invocation
    hour,              \* UTC clock, in hours since the invocation started
    pc,                \* position of lambda_handler
    cause,             \* why lambda_handler raised
    credentials,       \* the parsed secret
    i,                 \* outer records consumed
    ninner,            \* len(s3_event['Records']) of the current body
    j,                 \* inner records consumed
    listing,           \* response['Contents'] of the scan
    idx,               \* listed objects consumed
    record,            \* the record under examination
    total_files,
    successful_files,
    result,            \* what the last process_s3_event call returned
    response,          \* what lambda_handler returned
    obj_start,         \* start_time of process_s3_event
    key,
    file_content,
    remote_path,
    locations_status,
    attempts,          \* the transfer_file_to_onprem calls made for this object
    loc,               \* location of the delivery in progress
    tpc,               \* position of transfer_file_to_onprem
    temp_file,         \* temp_file_path
    ret,               \* how transfer_file_to_onprem leaves
    tmpfs,             \* the files of /tmp
    remote,            \* the files at the on-premises destinations
    metric_data,       \* MetricData of the send_metrics call being made
    cw,                \* the metric names the metrics backend holds data for
    secret_calls,      \* get_secret_value calls made by this invocation
    dirs,              \* the directories of one destination's file system
    target,            \* per invocation: remote_dir of the outermost call
    stack,             \* per invocation: remote_dir of every active call
    dpc,               \* per invocation: position of the innermost call
    missing,           \* per invocation: directories whose stat raised IOError
    mkdir_log,         \* per invocation: the mkdir calls of the current call
    dir_error,         \* per invocation: what made the call raise
    ncalls,            \* per invocation: outermost calls made so far
    again              \* per invocation: same path as the call that just returned

handlerVars == <<event_kind, nrec, secret, pc, cause, credentials, i, ninner, j, listing, idx,
                 record, total_files, successful_files, result, response>>
objectVars  == <<obj_start, key, file_content, remote_path, locations_status, attempts>>
transferVars == <<loc, tpc, temp_file, ret, tmpfs, remote>>
metricVars  == <<metric_data, cw>>
dirVars     == <<dirs, target, stack, dpc, missing, mkdir_log, dir_error, ncalls, again>>
vars == <<hour, handlerVars, objectVars, transferVars, metricVars, secret_calls, dirVars>>

NoStatus == [l \in {} |-> TRUE]

\* No create_remote_directory call is being followed step by step.
NoCall ==
    /\ target = [p \in Invocations |-> <<>>]
    /\ stack = [p \in Invocations |-> <<>>]
    /\ dpc = [p \in Invocations |-> "idle"]
    /\ missing = [p \in Invocations |-> {}]
    /\ mkdir_log = [p \in Invocations |-> <<>>]
    /\ dir_error = [p \in Invocations |-> "none"]
    /\ ncalls = [p \in Invocations |-> 0]
    /\ again = [p \in Invocations |-> FALSE]

DirIdle == dirs = {} /\ NoCall

\* lambda_handler is entered
HandlerInit ==
    /\ event_kind \in {"sqs", "scan"}
    /\ nrec \in 0..MaxRecords
    /\ (event_kind = "scan") => (nrec = 0)
    /\ secret \in SecretAnswers
    /\ hour = 0
    /\ pc = "credentials"
    /\ cause = "none"
    /\ credentials = EmptySecret
    /\ i = 0 /\ ninner = 0 /\ j = 0
    /\ listing = <<>> /\ idx = 0
    /\ record = NoRecord
    /\ total_files = 0 /\ successful_files = 0
    /\ result = FALSE
    /\ response = NoReport
    /\ obj_start = 0
    /\ key = <<>>
    /\ file_content = ""
    /\ remote_path = <<>>
    /\ locations_status = NoStatus
    /\ attempts = <<>>
    /\ loc = "none"
    /\ tpc = "idle"
    /\ temp_file = 0
    /\ ret = Outcome(FALSE, FALSE)
    /\ tmpfs = {}
    /\ remote = {}
    /\ metric_data = <<>>
    /\ cw = {}
    /\ secret_calls = 0

Init == HandlerInit /\ DirIdle

Running == pc \notin {"returned", "raised"}

\* The UTC hour changes.
Tick ==
    /\ Running
    /\ hour < MaxTicks
    /\ hour' = hour + 1
    /\ UNCHANGED <<handlerVars, objectVars, transferVars, metricVars>>
    /\ UNCHANGED <<secret_calls, dirVars>>

\* ----------------------------------------------------------- lambda_handler
\* lines 186-193: load the credentials, zero the counters, choose the path
GetCredentials ==
    /\ pc = "credentials"
    /\ secret_calls' = secret_calls + 1
    /\ LET got == get_onprem_credentials(secret) IN
         IF got.raised
         THEN /\ pc' = "raised"
              /\ cause' = "credentials"
              /\ UNCHANGED credentials
         ELSE /\ credentials' = got.value
              /\ pc' = IF event_kind = "sqs" THEN "records" ELSE "scan"
              /\ UNCHANGED cause
    /\ UNCHANGED <<event_kind, nrec, secret, i, ninner, j, listing, idx, record, total_files,
                   successful_files, result, response>>
    /\ UNCHANGED <<hour, objectVars, transferVars, metricVars>>
    /\ UNCHANGED dirVars

\* lines 194-199: next queue record, json.loads of its body
NextRecord ==
    /\ pc = "records"
    /\ i < nrec
    /\ i' = i + 1
    /\ \E kind \in OuterKinds :
         CASE kind = "bad_json" ->
                /\ pc' = "raised" /\ cause' = "json"
                /\ UNCHANGED <<ninner, j>>
           [] kind = "records" ->
                /\ \E n \in 0..MaxInner : ninner' = n
                /\ j' = 0
                /\ pc' = "inner"
                /\ UNCHANGED cause
           [] OTHER ->
                UNCHANGED <<pc, cause, ninner, j>>
    /\ UNCHANGED <<event_kind, nrec, secret, credentials, listing, idx, record, total_files,
                   successful_files, result, response>>
    /\ UNCHANGED <<hour, objectVars, transferVars, metricVars>>
    /\ UNCHANGED <<secret_calls, dirVars>>

\* the outer loop is exhausted
RecordsDone ==
    /\ pc = "records"
    /\ i = nrec
    /\ pc' = "batch"
    /\ UNCHANGED <<event_kind, nrec, secret, cause, credentials, i, ninner, j, listing, idx,
                   record, total_files, successful_files, result, response>>
    /\ UNCHANGED <<hour, objectVars, transferVars, metricVars>>
    /\ UNCHANGED <<secret_calls, dirVars>>

\* line 200: next inner record
NextInner ==
    /\ pc = "inner"
    /\ j < ninner
    /\ j' = j + 1
    /\ \E rec \in InnerRecords :
         /\ (rec.eventSource = "aws:s3" /\ StartsWith(rec.eventName, CreatedPrefix))
               => total_files < MaxFiles
         /\ record' = rec
    /\ pc' = "filter"
    /\ UNCHANGED <<event_kind, nrec, secret, cause, credentials, i, ninner, listing, idx,
                   total_files, successful_files, result, response>>
    /\ UNCHANGED <<hour, objectVars, transferVars, metricVars>>
    /\ UNCHANGED <<secret_calls, dirVars>>

\* lines 201-203: a created record is counted and handed to process_s3_event,
\* any other record is passed over
FilterRecord ==
    /\ pc = "filter"
    /\ IF is_created_record(record)
       THEN /\ total_files' = total_files + 1
            /\ obj_start' = hour
            /\ pc' = "entry"
            /\ UNCHANGED record
       ELSE /\ record' = NoRecord
            /\ pc' = "inner"
            /\ UNCHANGED <<total_files, obj_start>>
    /\ UNCHANGED <<event_kind, nrec, secret, cause, credentials, i, ninner, j, listing, idx,
                   successful_files, result, response>>
    /\ UNCHANGED <<hour, key, file_content, remote_path, locations_status, attempts>>
    /\ UNCHANGED <<transferVars, metricVars>>
    /\ UNCHANGED <<secret_calls, dirVars>>

\* the inner loop is exhausted
InnerDone ==
    /\ pc = "inner"
    /\ j = ninner
    /\ pc' = "records"
    /\ UNCHANGED <<event_kind, nrec, secret, cause, credentials, i, ninner, j, listing, idx,
                   record, total_files, successful_files, result, response>>
    /\ UNCHANGED <<hour, objectVars, transferVars, metricVars>>
    /\ UNCHANGED <<secret_calls, dirVars>>

\* lines 209-218: list the bucket under the current hour path
ListObjects ==
    /\ pc = "scan"
    /\ \E ok \in BOOLEAN :
         IF ok
         THEN /\ listing' = list_objects_v2(get_current_path(hour))
              /\ pc' = "contents"
         ELSE /\ pc' = "batch"          \* caught at line 230
              /\ UNCHANGED listing
    /\ idx' = 0
    /\ UNCHANGED <<event_kind, nrec, secret, cause, credentials, i, ninner, j, record,
                   total_files, successful_files, result, response>>
    /\ UNCHANGED <<hour, objectVars, transferVars, metricVars>>
    /\ UNCHANGED <<secret_calls, dirVars>>

\* lines 219-228: next listed object, wrapped in a record
NextListed ==
    /\ pc = "contents"
    /\ idx < Len(listing)
    /\ idx' = idx + 1
    /\ total_files' = total_files + 1
    /\ record' = Rec("scan", <<>>, TRUE, listing[idx + 1])
    /\ obj_start' = hour
    /\ pc' = "entry"
    /\ UNCHANGED <<event_kind, nrec, secret, cause, credentials, i, ninner, j, listing,
                   successful_files, result, response>>
    /\ UNCHANGED <<hour, key, file_content, remote_path, locations_status, attempts>>
    /\ UNCHANGED <<transferVars, metricVars>>
    /\ UNCHANGED <<secret_calls, dirVars>>

ListedDone ==
    /\ pc = "contents"
    /\ idx = Len(listing)
    /\ pc' = "batch"
    /\ UNCHANGED <<event_kind, nrec, secret, cause, credentials, i, ninner, j, listing, idx,
                   record, total_files, successful_files, result, response>>
    /\ UNCHANGED <<hour, objectVars, transferVars, metricVars>>
    /\ UNCHANGED <<secret_calls, dirVars>>

\* --------------------------------------------------------- process_s3_event
\* process_s3_event returns `value`
Return(value) ==
    /\ result' = value
    /\ pc' = "return"
    /\ UNCHANGED cause

\* An exception leaves process_s3_event: nothing catches it on the queue path,
\* the except clause of line 230 catches it on the scan path.
Raise(why) ==
    /\ UNCHANGED result
    /\ IF event_kind = "sqs"
       THEN pc' = "raised" /\ cause' = why
       ELSE pc' = "batch" /\ UNCHANGED cause

\* An exception inside the try block of lines 114-171
ExceptionInTry(why) ==
    IF process_except.raised
    THEN Raise(why)
    ELSE Return(process_except.value)

\* lines 108-110, outside the try block: read bucket and key of the record
ReadRecord ==
    /\ pc = "entry"
    /\ IF record.has_s3
       THEN /\ key' = unquote_plus(record.key)
            /\ pc' = "fetch"
            /\ UNCHANGED <<cause, result>>
       ELSE /\ Raise("key_error")
            /\ UNCHANGED key
    /\ UNCHANGED <<event_kind, nrec, secret, credentials, i, ninner, j, listing, idx, record,
                   total_files, successful_files, response>>
    /\ UNCHANGED <<obj_start, file_content, remote_path, locations_status, attempts>>
    /\ UNCHANGED <<hour, transferVars, metricVars>>
    /\ UNCHANGED <<secret_calls, dirVars>>

\* variant: the hour folder is taken again when the delivery starts
CallTransfer_per_delivery(l, path, content, before) ==
    /\ loc' = l
    /\ attempts' = Append(before, [loc |-> l, path |-> RemotePath(hour, basename(path)),
                                   content |-> content])
    /\ temp_file' = uuid4(tmpfs)
    /\ tpc' = "open"

\* the call transfer_file_to_onprem(remote_path, file_content, credentials, l)
\* and line 47
CallTransfer(l, path, content, before) ==
    /\ loc' = l
    /\ attempts' = Append(before, [loc |-> l, path |-> path, content |-> content])
    /\ temp_file' = uuid4(tmpfs)
    /\ tpc' = "open"

\* lines 114-129: fetch the object, build the remote path, start with op1
FetchObject ==
    /\ pc = "fetch"
    /\ \E ok \in BOOLEAN :
         IF ok /\ key \in Bucket
         THEN /\ file_content' = ObjectBytes(key)
              /\ remote_path' = RemotePath(hour, basename(key))
              /\ locations_status' = NoStatus
              /\ CallTransfer("op1", remote_path', file_content', <<>>)
              /\ pc' = "transfer"
              /\ UNCHANGED <<cause, result, ret, tmpfs, remote>>
         ELSE /\ ExceptionInTry("fetch")
              /\ UNCHANGED <<file_content, remote_path, locations_status, attempts>>
              /\ UNCHANGED transferVars
    /\ UNCHANGED <<event_kind, nrec, secret, credentials, i, ninner, j, listing, idx, record,
                   total_files, successful_files, response>>
    /\ UNCHANGED <<obj_start, key, hour, metricVars>>
    /\ UNCHANGED <<secret_calls, dirVars>>

\* -------------------------------------------------- transfer_file_to_onprem
\* A step of the try block raised: the except clause, then on to finally
TransferException ==
    /\ ret' = transfer_except
    /\ tpc' = "finally"

WriteFile(fs, name, data) ==
    {f \in fs : f.name /= name} \cup {[name |-> name, data |-> data]}

TempData == IF \E f \in tmpfs : f.name = temp_file
            THEN (CHOOSE f \in tmpfs : f.name = temp_file).data
            ELSE "absent"

\* line 51: open(temp_file_path, 'wb')
TransferOpen ==
    /\ pc = "transfer" /\ tpc = "open"
    /\ \E ok \in BOOLEAN :
         IF ok
         THEN /\ tmpfs' = WriteFile(tmpfs, temp_file, "empty")
              /\ tpc' = "write"
              /\ UNCHANGED ret
         ELSE /\ TransferException
              /\ UNCHANGED tmpfs
    /\ UNCHANGED <<loc, temp_file, remote>>
    /\ UNCHANGED <<hour, handlerVars, objectVars, metricVars>>
    /\ UNCHANGED <<secret_calls, dirVars>>

\* line 52: f.write(file_content)
TransferWrite ==
    /\ pc = "transfer" /\ tpc = "write"
    /\ \E ok \in BOOLEAN :
         IF ok
         THEN /\ tmpfs' = WriteFile(tmpfs, temp_file, file_content)
              /\ tpc' = "credentials"
              /\ UNCHANGED ret
         ELSE /\ tmpfs' = WriteFile(tmpfs, temp_file, "partial")
              /\ TransferException
    /\ UNCHANGED <<loc, temp_file, remote>>
    /\ UNCHANGED <<hour, handlerVars, objectVars, metricVars>>
    /\ UNCHANGED <<secret_calls, dirVars>>

\* lines 55-56: credentials[f'{location}_host'], int(credentials[f'{location}_port'])
HostKey(l) == IF l = "op1" THEN "op1_host" ELSE "op2_host"
PortKey(l) == IF l = "op1" THEN "op1_port" ELSE "op2_port"

TransferCredentials ==
    /\ pc = "transfer" /\ tpc = "credentials"
    /\ IF /\ HostKey(loc) \in DOMAIN credentials
          /\ PortKey(loc) \in DOMAIN credentials
          /\ IsIntString(credentials[PortKey(loc)])
       THEN tpc' = "connect" /\ UNCHANGED ret
       ELSE TransferException
    /\ UNCHANGED <<loc, temp_file, tmpfs, remote>>
    /\ UNCHANGED <<hour, handlerVars, objectVars, metricVars>>
    /\ UNCHANGED <<secret_calls, dirVars>>

\* lines 59-69: client.connect
TransferConnect ==
    /\ pc = "transfer" /\ tpc = "connect"
    /\ \E ok \in BOOLEAN :
         IF ok THEN tpc' = "sftp" /\ UNCHANGED ret ELSE TransferException
    /\ UNCHANGED <<loc, temp_file, tmpfs, remote>>
    /\ UNCHANGED <<hour, handlerVars, objectVars, metricVars>>
    /\ UNCHANGED <<secret_calls, dirVars>>

\* line 72: client.open_sftp
TransferOpenSftp ==
    /\ pc = "transfer" /\ tpc = "sftp"
    /\ \E ok \in BOOLEAN :
         IF ok THEN tpc' = "mkdirs" /\ UNCHANGED ret ELSE TransferException
    /\ UNCHANGED <<loc, temp_file, tmpfs, remote>>
    /\ UNCHANGED <<hour, handlerVars, objectVars, metricVars>>
    /\ UNCHANGED <<secret_calls, dirVars>>

\* lines 75-76: create_remote_directory(sftp, os.path.dirname(file_path)),
\* returning or raising (SpecDir follows its steps)
TransferMkdirs ==
    /\ pc = "transfer" /\ tpc = "mkdirs"
    /\ \E ok \in BOOLEAN :
         IF ok THEN tpc' = "put" /\ UNCHANGED ret ELSE TransferException
    /\ UNCHANGED <<loc, temp_file, tmpfs, remote>>
    /\ UNCHANGED <<hour, handlerVars, objectVars, metricVars>>
    /\ UNCHANGED <<secret_calls, dirVars>>

\* line 79: sftp.put(temp_file_path, file_path)
Stored(l, path, data) == [loc |-> l, path |-> path, data |-> data]

Replace(files, l, path, data) ==
    {f \in files : ~(f.loc = l /\ f.path = path)} \cup {Stored(l, path, data)}

\* file_path, the first parameter of the delivery in progress
file_path == attempts[Len(attempts)].path

TransferPut ==
    /\ pc = "transfer" /\ tpc = "put"
    /\ \E ok \in BOOLEAN :
         IF ok
         THEN /\ remote' = Replace(remote, loc, file_path, TempData)
              /\ tpc' = "close"
              /\ UNCHANGED ret
         ELSE /\ UNCHANGED remote
              /\ TransferException
    /\ UNCHANGED <<loc, temp_file, tmpfs>>
    /\ UNCHANGED <<hour, handlerVars, objectVars, metricVars>>
    /\ UNCHANGED <<secret_calls, dirVars>>

\* lines 81-85: sftp.close(), client.close(), return True
TransferClose ==
    /\ pc = "transfer" /\ tpc = "close"
    /\ \E ok \in BOOLEAN :
         IF ok
         THEN ret' = Outcome(FALSE, TRUE) /\ tpc' = "finally"
         ELSE TransferException
    /\ UNCHANGED <<loc, temp_file, tmpfs, remote>>
    /\ UNCHANGED <<hour, handlerVars, objectVars, metricVars>>
    /\ UNCHANGED <<secret_calls, dirVars>>

\* lines 89-92: remove the temporary file if it exists
TransferFinally ==
    /\ pc = "transfer" /\ tpc = "finally"
    /\ tmpfs' = transfer_finally(tmpfs, temp_file)
    /\ tpc' = "exit"
    /\ UNCHANGED <<loc, temp_file, ret, remote>>
    /\ UNCHANGED <<hour, handlerVars, objectVars, metricVars>>
    /\ UNCHANGED <<secret_calls, dirVars>>

\* back in process_s3_event: lines 129-132 record the status and go on with
\* op2, or with the metrics after op2
TransferReturn ==
    /\ pc = "transfer" /\ tpc = "exit"
    /\ IF ret.raised
       THEN /\ ExceptionInTry("transfer")
            /\ tpc' = "idle"
            /\ UNCHANGED <<locations_status, attempts, loc, temp_file>>
       ELSE /\ locations_status' =
                  [l \in (DOMAIN locations_status) \cup {loc} |->
                      IF l = loc THEN ret.value ELSE locations_status[l]]
            /\ IF loc = "op1"
               THEN /\ CallTransfer("op2", remote_path, file_content, attempts)
                    /\ UNCHANGED pc
               ELSE /\ pc' = "metrics"
                    /\ tpc' = "idle"
                    /\ UNCHANGED <<loc, attempts, temp_file>>
            /\ UNCHANGED <<cause, result>>
    /\ UNCHANGED <<ret, tmpfs, remote>>
    /\ UNCHANGED <<event_kind, nrec, secret, credentials, i, ninner, j, listing, idx, record,
                   total_files, successful_files, response>>
    /\ UNCHANGED <<obj_start, key, file_content, remote_path>>
    /\ UNCHANGED <<hour, metricVars>>
    /\ UNCHANGED <<secret_calls, dirVars>>

\* lines 135-171: overall result, per-object metrics, return
ObjectMetrics ==
    /\ pc = "metrics"
    /\ \E accepted \in BOOLEAN :
         LET success == overall_success(locations_status)
             sent    == send_metrics(accepted)
         IN  /\ metric_data' = object_metrics(basename(key), hour - obj_start,
                                              ObjectSize(key), success)
             /\ cw' = IF accepted THEN cw \cup MetricNames(metric_data') ELSE cw
             /\ IF sent.raised
                THEN ExceptionInTry("metrics")
                ELSE Return(success)
    /\ UNCHANGED <<event_kind, nrec, secret, credentials, i, ninner, j, listing, idx, record,
                   total_files, successful_files, response>>
    /\ UNCHANGED <<hour, objectVars, transferVars>>
    /\ UNCHANGED <<secret_calls, dirVars>>

\* variant: every processed object is counted as successful
count_result_always(successful, returned) == successful + 1

\* lines 203-204 and 228-229: `if process_s3_event(...): successful_files += 1`
count_result(successful, returned) == IF returned THEN successful + 1 ELSE successful

\* lines 203-204 and 228-229: count a true return; the locals of the call are gone
CountResult ==
    /\ pc = "return"
    /\ successful_files' = count_result(successful_files, result)
    /\ pc' = IF event_kind = "sqs" THEN "inner" ELSE "contents"
    /\ result' = FALSE
    /\ record' = NoRecord
    /\ obj_start' = 0
    /\ key' = <<>>
    /\ file_content' = ""
    /\ remote_path' = <<>>
    /\ locations_status' = NoStatus
    /\ attempts' = <<>>
    /\ loc' = "none"
    /\ temp_file' = 0
    /\ ret' = Outcome(FALSE, FALSE)
    /\ metric_data' = <<>>
    /\ UNCHANGED <<event_kind, nrec, secret, cause, credentials, i, ninner, j, listing, idx,
                   total_files, response>>
    /\ UNCHANGED <<hour, tpc, tmpfs, remote, cw>>
    /\ UNCHANGED <<secret_calls, dirVars>>

\* lines 233-275: batch metrics and the response
BatchMetrics ==
    /\ pc = "batch"
    /\ \E accepted \in BOOLEAN :
         LET sent == send_metrics(accepted)
         IN  /\ metric_data' = batch_metrics(hour, total_files, successful_files)
             /\ cw' = IF accepted THEN cw \cup MetricNames(metric_data') ELSE cw
             /\ IF sent.raised
                THEN /\ pc' = "raised" /\ cause' = "metrics"
                     /\ UNCHANGED response
                ELSE /\ pc' = "returned"
                     /\ response' = report(total_files, successful_files, hour)
                     /\ UNCHANGED cause
    /\ UNCHANGED <<event_kind, nrec, secret, credentials, i, ninner, j, listing, idx, record,
                   total_files, successful_files, result>>
    /\ UNCHANGED <<hour, objectVars, transferVars>>
    /\ UNCHANGED <<secret_calls, dirVars>>

Next ==
    \/ Tick
    \/ GetCredentials
    \/ NextRecord
    \/ RecordsDone
    \/ NextInner
    \/ FilterRecord
    \/ InnerDone
    \/ ListObjects
    \/ NextListed
    \/ ListedDone
    \/ ReadRecord
    \/ FetchObject
    \/ TransferOpen
    \/ TransferWrite
    \/ TransferCredentials
    \/ TransferConnect
    \/ TransferOpenSftp
    \/ TransferMkdirs
    \/ TransferPut
    \/ TransferClose
    \/ TransferFinally
    \/ TransferReturn
    \/ ObjectMetrics
    \/ CountResult
    \/ BatchMetrics

Spec == Init /\ [][Next]_vars

\* -------------------------------------------------- create_remote_directory
\* Line 76 of two deliveries to the same destination followed step by step;
\* the rest of each invocation stands still.
invocationVars == <<hour, handlerVars, objectVars, transferVars, metricVars, secret_calls>>

Top(p) == stack[p][Len(stack[p])]

\* the innermost call returns: its caller goes on at line 104, the outermost
\* caller at line 79
DirReturn(p) ==
    /\ stack' = [stack EXCEPT ![p] = SubSeq(stack[p], 1, Len(stack[p]) - 1)]
    /\ dpc' = [dpc EXCEPT ![p] = IF Len(stack[p]) = 1 THEN "returned" ELSE "mkdir"]

\* line 76: create_remote_directory(sftp, remote_dir)
DirCall(p) ==
    /\ dpc[p] \in {"idle", "returned", "raised"}
    /\ ncalls["inv1"] + ncalls["inv2"] < MaxCalls
    /\ \E d \in RemoteDirs \cup {Root} :
         /\ target' = [target EXCEPT ![p] = d]
         /\ stack' = [stack EXCEPT ![p] = <<d>>]
         /\ again' = [again EXCEPT ![p] = (dpc[p] = "returned" /\ d = target[p])]
    /\ dpc' = [dpc EXCEPT ![p] = "entry"]
    /\ missing' = [missing EXCEPT ![p] = {}]
    /\ mkdir_log' = [mkdir_log EXCEPT ![p] = <<>>]
    /\ dir_error' = [dir_error EXCEPT ![p] = "none"]
    /\ ncalls' = [ncalls EXCEPT ![p] = ncalls[p] + 1]
    /\ UNCHANGED dirs
    /\ UNCHANGED invocationVars

\* lines 96-97: the root needs no directory
DirEntry(p) ==
    /\ dpc[p] = "entry"
    /\ IF Top(p) = Root
       THEN DirReturn(p)
       ELSE dpc' = [dpc EXCEPT ![p] = "stat"] /\ UNCHANGED stack
    /\ UNCHANGED <<dirs, target, missing, mkdir_log, dir_error, ncalls, again>>
    /\ UNCHANGED invocationVars

\* lines 99-103: the existence test; when it raises, the parent comes first
DirStat(p) ==
    /\ dpc[p] = "stat"
    /\ IF sftp_stat(dirs, Top(p))
       THEN DirReturn(p) /\ UNCHANGED missing
       ELSE /\ missing' = [missing EXCEPT ![p] = missing[p] \cup {Top(p)}]
            /\ stack' = [stack EXCEPT ![p] = Append(stack[p], dirname(Top(p)))]
            /\ dpc' = [dpc EXCEPT ![p] = "entry"]
    /\ UNCHANGED <<dirs, target, mkdir_log, dir_error, ncalls, again>>
    /\ UNCHANGED invocationVars

\* line 104, inside the except clause: what mkdir raises leaves every active
\* call and reaches transfer_file_to_onprem
DirMkdir(p) ==
    /\ dpc[p] = "mkdir"
    /\ \E denied \in BOOLEAN :
         LET d   == Top(p)
             out == IF denied
                    THEN [raised |-> TRUE, why |-> "denied", fs |-> dirs]
                    ELSE sftp_mkdir(dirs, d)
         IN  /\ mkdir_log' = [mkdir_log EXCEPT ![p] =
                    Append(mkdir_log[p], [dir |-> d, present |-> d \in dirs,
                                          parent |-> Exists(dirs, dirname(d))])]
             /\ dirs' = out.fs
             /\ IF out.raised
                THEN /\ dpc' = [dpc EXCEPT ![p] = "raised"]
                     /\ dir_error' = [dir_error EXCEPT ![p] = out.why]
                     /\ stack' = [stack EXCEPT ![p] = <<>>]
                ELSE /\ DirReturn(p)
                     /\ UNCHANGED dir_error
    /\ UNCHANGED <<target, missing, ncalls, again>>
    /\ UNCHANGED invocationVars

InitDir ==
    /\ HandlerInit
    /\ event_kind = "scan"
    /\ secret.kind = "unavailable"
    /\ dirs \in Trees
    /\ NoCall

NextDir ==
    \/ \E p \in Invocations : DirCall(p)
    \/ \E p \in Invocations : DirEntry(p)
    \/ \E p \in Invocations : DirStat(p)
    \/ \E p \in Invocations : DirMkdir(p)

SpecDir == InitDir /\ [][NextDir]_vars

\* ================================================================ properties
Fetched == attempts /= <<>>

BothDelivered ==
    /\ DOMAIN locations_status = Locations
    /\ locations_status["op1"]
    /\ locations_status["op2"]

LoopHead == IF event_kind = "sqs" THEN "inner" ELSE "contents"

\* C1: for an object whose fetch succeeded, process_s3_event returns true if
\* and only if the op1 delivery and the op2 delivery both returned true, and
\* lambda_handler adds the object to successful_files only in that case.
C1_OverallSuccessIsConjunction ==
    [][ /\ (pc' = "return" /\ Fetched') => (result' <=> BothDelivered')
        /\ (pc = "return" /\ Fetched /\ pc' /= "return") =>
              successful_files' = successful_files + (IF BothDelivered THEN 1 ELSE 0)
      ]_vars

C1_Witness ==
    /\ pc = "return" /\ Fetched
    /\ DOMAIN locations_status = Locations
    /\ locations_status["op1"] /\ ~locations_status["op2"]
    /\ ~result

\* C2: whatever the op1 delivery returned, the step after it is the op2
\* delivery of the same object, called with the same remote path and the same
\* content; an object that reaches its metrics has had exactly these two calls.
C2_Op2FollowsOp1 ==
    [][ /\ (pc = "transfer" /\ loc = "op1" /\ tpc = "exit" /\ tpc' /= "exit") =>
              /\ pc' = "transfer" /\ loc' = "op2" /\ tpc' = "open"
              /\ Len(attempts') = 2
              /\ attempts'[1] = attempts[1]
        /\ (pc' \in {"metrics", "return"} /\ Fetched') =>
              /\ Len(attempts') = 2
              /\ attempts'[1].loc = "op1" /\ attempts'[2].loc = "op2"
              /\ attempts'[2].path = attempts'[1].path
              /\ attempts'[2].content = attempts'[1].content
      ]_vars

C2_Witness ==
    /\ pc = "transfer" /\ loc = "op2" /\ tpc = "connect"
    /\ Len(attempts) = 2
    /\ locations_status["op1"] = FALSE
    /\ "op1_host" \notin DOMAIN credentials
    /\ remote_path = RemotePath(0, "a.csv") /\ hour = 1

\* C3: transfer_file_to_onprem never raises: a failure of any step of the try
\* block makes it return false, and it returns true only with the object
\* stored under the remote path at the destination.
TryStepsBeforeClose == {"open", "write", "credentials", "connect", "sftp", "mkdirs", "put"}

C3_TransferNeverRaises ==
    [][ /\ (pc = "transfer" /\ tpc \in TryStepsBeforeClose /\ tpc' = "finally") =>
              ret' = Outcome(FALSE, FALSE)
        /\ (tpc' = "exit") =>
              /\ ~ret'.raised
              /\ ret'.value => Stored(loc', remote_path', file_content') \in remote'
      ]_vars

C3_Witness ==
    /\ pc = "transfer" /\ tpc = "exit"
    /\ ret = Outcome(FALSE, FALSE)
    /\ Stored(loc, remote_path, file_content) \notin remote

\* C4: when transfer_file_to_onprem leaves, its temporary file is not in /tmp,
\* and between deliveries /tmp holds no temporary file at all.
C4_TempFileRemoved ==
    /\ (tpc = "exit") => (\A f \in tmpfs : f.name /= temp_file)
    /\ (tpc \in {"idle", "exit"}) => (tmpfs = {})

C4_Witness ==
    /\ pc = "transfer" /\ tpc = "exit" /\ loc = "op2"
    /\ ~ret.value
    /\ locations_status["op1"]

\* C5: when the secret store fails or answers something that is not JSON,
\* lambda_handler raises at once: no object is counted or fetched, no delivery
\* is attempted, no metric is built or accepted, no report is returned.
C5_CredentialsFailureIsFatal ==
    (secret.kind /= "json") =>
        /\ pc \in {"credentials", "raised"}
        /\ (pc = "raised") => (cause = "credentials")
        /\ total_files = 0 /\ successful_files = 0
        /\ key = <<>> /\ attempts = <<>>
        /\ remote = {} /\ tmpfs = {}
        /\ metric_data = <<>> /\ cw = {}
        /\ response = NoReport

C5_Witness ==
    /\ secret.kind = "not_json"
    /\ pc = "raised"
    /\ nrec = MaxRecords

\* C6: a failed fetch makes process_s3_event return false with no delivery
\* attempted; the object stays counted in total_files, is not added to
\* successful_files, and lambda_handler goes on with its loop.
C6_FetchFailureIsLocal ==
    [][ /\ (pc = "fetch" /\ pc' \notin {"fetch", "transfer"}) =>
              /\ pc' = "return" /\ ~result' /\ ~Fetched'
              /\ total_files' = total_files /\ total_files > successful_files
              /\ cause' = "none"
        /\ (pc = "return" /\ ~Fetched /\ pc' /= "return") =>
              /\ pc' = LoopHead
              /\ total_files' = total_files
              /\ successful_files' = successful_files
              /\ <<i, j, idx>>' = <<i, j, idx>>
      ]_vars

C6_Witness ==
    /\ pc = "return" /\ ~Fetched /\ ~result
    /\ total_files = 1 /\ successful_files = 0
    /\ i < nrec

\* C7: apart from a credentials failure nothing makes lambda_handler raise:
\* a queue record whose body is not JSON, an inner record without the s3
\* fields and a failed listing all end in the report.
C7_OnlyCredentialsFailureRaises ==
    (pc = "raised") => (cause = "credentials")

\* C8: whether or not the metrics backend accepts the data, the send_metrics
\* step of an object returns the conjunction of its two deliveries with the
\* counters and loop positions untouched, and the send_metrics step of the
\* batch returns the report of the counters as they stand.
C8_MetricsFailureChangesNothing ==
    [][ /\ (pc = "metrics" /\ pc' /= "metrics") =>
              /\ pc' = "return"
              /\ result' = BothDelivered
              /\ <<total_files, successful_files, i, j, idx, cause>>' =
                 <<total_files, successful_files, i, j, idx, cause>>
              /\ UNCHANGED <<objectVars, transferVars>>
        /\ (pc = "batch" /\ pc' /= "batch") =>
              /\ pc' = "returned"
              /\ response' = [statusCode |-> 200, total_files |-> total_files,
                              successful_files |-> successful_files,
                              processing_time |-> hour]
              /\ <<total_files, successful_files, cause>>' =
                 <<total_files, successful_files, cause>>
      ]_vars

C8_Witness ==
    /\ pc = "returned"
    /\ cw = {}
    /\ total_files = 2 /\ successful_files = 2
    /\ response.successful_files = 2

\* C9: the batch metrics of an invocation that returns hold BatchExecutionTime,
\* BatchFilesProcessed (= total_files) and BatchFilesSuccessful
\* (= successful_files); they hold BatchSuccessRate if and only if
\* total_files > 0, valued successful_files / total_files * 100 (to 1/100 of a
\* percent); a queued payload with zero Records gives total_files = 0 and no rate.
MetricValue(data, name) ==
    LET n == CHOOSE n \in 1..Len(data) : data[n].MetricName = name IN data[n].Value

C9_BatchSuccessRate ==
    (pc = "returned") =>
        LET names == MetricNames(metric_data) IN
        /\ {"BatchExecutionTime", "BatchFilesProcessed", "BatchFilesSuccessful"} \subseteq names
        /\ MetricValue(metric_data, "BatchFilesProcessed") = total_files
        /\ MetricValue(metric_data, "BatchFilesSuccessful") = successful_files
        /\ ("BatchSuccessRate" \in names) <=> (total_files > 0)
        /\ ("BatchSuccessRate" \in names) =>
              LET v == MetricValue(metric_data, "BatchSuccessRate") IN
              /\ v * total_files <= successful_files * 10000
              /\ successful_files * 10000 < (v + 1) * total_files
        /\ (event_kind = "sqs" /\ nrec = 0) =>
              (total_files = 0 /\ "BatchSuccessRate" \notin names)

C9_Witness ==
    /\ pc = "returned"
    /\ total_files = 2 /\ successful_files = 0
    /\ "BatchSuccessRate" \in MetricNames(metric_data)
    /\ MetricValue(metric_data, "BatchSuccessRate") = 0

\* C10 as stated: an inner record is counted and handed to process_s3_event
\* exactly when its event name begins with the created prefix.
C10_ProcessedIffCreatedName ==
    [][ (pc = "filter" /\ pc' /= "filter") =>
            ( (total_files' = total_files + 1 /\ pc' = "entry")
              <=> StartsWith(record.eventName, CreatedPrefix) )
      ]_vars

\* C10 amended: an inner record is counted and handed to process_s3_event
\* exactly when its eventSource is 'aws:s3' and its event name begins with
\* 'ObjectCreated'; any other inner record is passed over, uncounted and
\* without error.
C10_ProcessedIffCreatedS3Record ==
    [][ (pc = "filter" /\ pc' /= "filter") =>
            IF record.eventSource = "aws:s3" /\ StartsWith(record.eventName, CreatedPrefix)
            THEN /\ total_files' = total_files + 1
                 /\ pc' = "entry"
                 /\ record' = record
            ELSE /\ total_files' = total_files
                 /\ pc' = "inner"
                 /\ cause' = "none"
      ]_vars

C10_Witness ==
    /\ pc = "entry"
    /\ record.eventSource = "aws:s3"
    /\ record.eventName = <<"Object", "Created">>
    /\ total_files = 2

InObject == pc \in {"fetch", "transfer", "metrics", "return"}

Range(q) == {q[n] : n \in 1..Len(q)}

\* C11: on the scan path nothing outside the hour prefix is listed, and each
\* listed object is processed under the key it was listed with.
C11_ScanProcessesListedKeys ==
    (event_kind = "scan") =>
        /\ \A k \in Range(listing) :
              \E h \in 0..hour : StartsWith(k, get_current_path(h))
        /\ (pc = "contents") =>
              \E h \in 0..hour : listing = list_objects_v2(get_current_path(h))
        /\ InObject =>
              /\ idx \in 1..Len(listing)
              /\ key = listing[idx]

\* C12: no delivery to a destination whose host or port key the secret lacks
\* ends as a per-destination result: the invocation fails instead.
C12_MissingKeyIsFatal ==
    \A l \in Locations :
        ( \/ l \in DOMAIN locations_status
          \/ (pc = "transfer" /\ loc = l /\ tpc \in {"finally", "exit"}) )
        => {HostKey(l), PortKey(l)} \subseteq DOMAIN credentials

\* C13 as stated: the hour folder of a delivery is the UTC hour at which that
\* delivery starts, for op1 and for op2.
C13_HourFolderPerDelivery ==
    [][ (Len(attempts') = Len(attempts) + 1) =>
            attempts'[Len(attempts')].path = RemotePath(hour, basename(key'))
      ]_vars

\* C13 amended: the remote path is computed once per object, between the fetch
\* and the op1 delivery; both deliveries are called with it, and an object
\* delivered to both destinations is stored under that one path at each, also
\* when the UTC hour changed in between.
C13_HourFolderPerObject ==
    Fetched =>
        /\ \E h \in obj_start..hour : remote_path = RemotePath(h, basename(key))
        /\ \A n \in 1..Len(attempts) : attempts[n].path = remote_path
        /\ (pc = "metrics" /\ BothDelivered) =>
              \A l \in Locations : Stored(l, remote_path, file_content) \in remote

C13_Witness ==
    /\ pc = "metrics" /\ BothDelivered
    /\ hour = 1
    /\ remote_path = RemotePath(0, "a.csv")
    /\ \A l \in Locations : Stored(l, RemotePath(0, "a.csv"), file_content) \in remote
    /\ \A f \in remote : f.path /= RemotePath(1, "a.csv")

\* C16: an invocation that obtained its credentials ends by returning status
\* 200 with total_files, successful_files and the processing time, whatever
\* happened to its objects.
C16_AlwaysReports ==
    (secret.kind = "json") =>
        /\ pc /= "raised"
        /\ (pc = "returned") =>
              /\ response.statusCode = 200
              /\ response.total_files = total_files
              /\ response.successful_files = successful_files
              /\ response.successful_files <= response.total_files

\* the hourly scans that follow the one that started at clock 0
LaterScans == 1..(MaxTicks + 1)

\* C17: an object that failed is attempted again by a later invocation: on the
\* scan path some later hourly scan lists it, and on the queue path the
\* invocation does not report the batch as handled (a queue re-delivers only
\* the messages of an invocation that did not return normally).
C17_FailedObjectIsRetried ==
    /\ (event_kind = "scan" /\ pc = "return" /\ ~result) =>
          \E c \in LaterScans : record.key \in Range(list_objects_v2(get_current_path(c)))
    /\ (event_kind = "sqs" /\ pc = "returned") =>
          successful_files = total_files

\* C19: an object whose fetch succeeded has one delivery to op1, then one to
\* op2, then its result; the op2 delivery starts only with the op1 result
\* recorded, and outside an object no delivery is in progress or remembered.
C19_ObjectStateMachine ==
    /\ Len(attempts) <= 2
    /\ \A n \in 1..Len(attempts) :
          attempts[n].loc = (IF n = 1 THEN "op1" ELSE "op2")
    /\ (pc = "transfer") =>
          /\ tpc /= "idle"
          /\ Len(attempts) >= 1
          /\ loc = attempts[Len(attempts)].loc
          /\ DOMAIN locations_status = {attempts[n].loc : n \in 1..(Len(attempts) - 1)}
    /\ (pc \in {"metrics", "return"} /\ Fetched) =>
          /\ Len(attempts) = 2
          /\ DOMAIN locations_status = Locations
    /\ (pc /= "transfer") => (tpc = "idle")
    /\ ~InObject => (attempts = <<>> /\ locations_status = NoStatus)

C19_Witness ==
    /\ pc = "transfer" /\ loc = "op1" /\ tpc = "put"
    /\ total_files = 2 /\ successful_files = 0
    /\ \E f \in remote : f.loc = "op1"
    /\ ~(\E f \in remote : f.loc = "op2")

\* C20: the secret is fetched once, before anything is counted or fetched, and
\* every later step of the invocation sees the mapping that fetch returned.
C20_CredentialsLoadedOnce ==
    /\ secret_calls = (IF pc = "credentials" THEN 0 ELSE 1)
    /\ (secret_calls = 0) =>
          (total_files = 0 /\ key = <<>> /\ attempts = <<>> /\ remote = {})
    /\ (pc /= "credentials" /\ cause /= "credentials") =>
          (secret.kind = "json" /\ credentials = secret.value)

C20_Witness ==
    /\ pc = "transfer" /\ loc = "op2" /\ tpc = "connect"
    /\ total_files = 2
    /\ secret_calls = 1
    /\ credentials = Without(FullSecret, "op1_host")
    /\ locations_status["op1"] = FALSE

OnlyOp1Delivered ==
    /\ DOMAIN locations_status = Locations
    /\ locations_status["op1"]
    /\ ~locations_status["op2"]

\* C21: when the op1 delivery of an object succeeded and its op2 delivery
\* failed, the object is stored at op1, nothing is stored under its remote
\* path at op2, the result is failure and TransferSuccess is built as 0.
C21_PartialFailureLeavesOp1Only ==
    (pc \in {"metrics", "return"} /\ OnlyOp1Delivered) =>
        /\ Stored("op1", remote_path, file_content) \in remote
        /\ ~(\E f \in remote : f.loc = "op2" /\ f.path = remote_path)
        /\ (pc = "return") =>
              /\ ~result
              /\ MetricValue(metric_data, "TransferSuccess") = 0

PerObjectMetricNames == {"ExecutionTime", "FileSize", "TransferSuccess"}

\* C22 as stated: every object counted in total_files, also one whose fetch
\* failed, leaves process_s3_event with its three metrics built, TransferSuccess
\* being 1 exactly when both deliveries succeeded.
C22_MetricsForEveryCountedObject ==
    (pc = "return") =>
        /\ MetricNames(metric_data) = PerObjectMetricNames
        /\ MetricValue(metric_data, "TransferSuccess") = (IF BothDelivered THEN 1 ELSE 0)

\* C22 amended: an object whose fetch succeeded has its three metrics built
\* once, after both deliveries and not before, each dimensioned by the file
\* name, with TransferSuccess = 1 exactly when both deliveries succeeded; an
\* object whose fetch failed stays counted in total_files and has no metric.
C22_MetricsForEveryFetchedObject ==
    /\ (pc \in {"entry", "fetch", "transfer", "metrics"}) => (metric_data = <<>>)
    /\ (pc = "return" /\ Fetched) =>
          /\ Len(attempts) = 2
          /\ Len(metric_data) = 3
          /\ MetricNames(metric_data) = PerObjectMetricNames
          /\ \A n \in 1..3 : metric_data[n].FileName = key[Len(key)]
          /\ MetricValue(metric_data, "FileSize") = ObjectSize(key)
          /\ MetricValue(metric_data, "TransferSuccess") = (IF BothDelivered THEN 1 ELSE 0)
    /\ (pc = "return" /\ ~Fetched) =>
          /\ metric_data = <<>>
          /\ total_files > successful_files

C22_Witness ==
    /\ pc = "return" /\ Fetched /\ OnlyOp1Delivered
    /\ MetricValue(metric_data, "TransferSuccess") = 0
    /\ total_files = 2 /\ successful_files = 0
    /\ "TransferSuccess" \notin cw

\* C23: in every state 0 <= successful_files <= total_files; no step lowers a
\* counter; total_files grows by one exactly when the processing of an object
\* starts, and successful_files grows by one exactly when process_s3_event
\* has returned true for the object in hand.
C23_CountersFollowObjects ==
    [][ /\ 0 <= successful_files /\ successful_files <= total_files
        /\ 0 <= successful_files' /\ successful_files' <= total_files'
        /\ total_files' \in {total_files, total_files + 1}
        /\ successful_files' \in {successful_files, successful_files + 1}
        /\ (total_files' = total_files + 1) <=> (pc /= "entry" /\ pc' = "entry")
        /\ (successful_files' = successful_files + 1) <=>
              (pc = "return" /\ result /\ pc' /= "return")
        /\ (pc = "return" /\ ~result /\ pc' /= "return") =>
              successful_files' < total_files'
      ]_vars

C23_Witness ==
    /\ pc = "return" /\ ~result /\ Fetched
    /\ total_files = 2 /\ successful_files = 1

\* the remote path built from an hour of the clock and the last key component
HourAndName(h, k) == <<"From_AWS">> \o get_current_path(h) \o <<k[Len(k)]>>

\* the last components of the keys of the bucket
BucketNames == {k[Len(k)] : k \in Bucket}

\* C24: the remote path of an object is made of the UTC hour at which it is
\* processed and of the last component of its key, and of nothing else; a
\* destination holds at most one file per path, so an upload to a path already
\* used replaces the file there; an object that returned true is the file
\* found under its path at both destinations.
C24_SameNameSameHourCollide ==
    /\ Fetched =>
          \E h \in obj_start..hour : remote_path = HourAndName(h, key)
    /\ Cardinality({<<f.loc, f.path>> : f \in remote}) = Cardinality(remote)
    /\ \A f \in remote :
          /\ Len(f.path) = 6
          /\ f.path[1] = "From_AWS"
          /\ f.path[6] \in BucketNames
    /\ (pc = "return" /\ result) =>
          \A l \in Locations : Stored(l, remote_path, file_content) \in remote

\* in/a.csv was delivered and counted; other dir/a.csv, in the same hour, has
\* replaced it at op1 and is about to replace it at op2
C24_Witness ==
    /\ pc = "transfer" /\ loc = "op2" /\ tpc = "put"
    /\ total_files = 2 /\ successful_files = 1
    /\ key = <<"other dir", "a.csv">>
    /\ remote_path = RemotePath(hour, "a.csv")
    /\ remote = { Stored("op1", remote_path, "bytes:other dir/a"),
                  Stored("op2", remote_path, "bytes:in/a") }

\* ------------------------------------------ create_remote_directory (SpecDir)
LastMkdir(p) == mkdir_log[p][Len(mkdir_log[p])]

\* C14: a directory that another invocation creates between this invocation's
\* existence test and its mkdir does not make the call raise, so the delivery
\* does not fail on it.
C14_RaceIsTolerated ==
    \A p \in Invocations :
        (dpc[p] = "raised") =>
            ~(LastMkdir(p).present /\ LastMkdir(p).dir \in missing[p])

\* C15: a call for the path of the call that has just returned without error
\* finds the directory at its first existence test: it raises nothing, calls
\* no mkdir and so leaves the remote file system as it is.
C15_SecondCallIsNoop ==
    \A p \in Invocations :
        again[p] =>
            /\ dpc[p] /= "raised"
            /\ missing[p] = {}
            /\ mkdir_log[p] = <<>>
            /\ Exists(dirs, target[p])
            /\ Len(stack[p]) <= 1

C15_Witness ==
    /\ again["inv1"] /\ dpc["inv1"] = "returned"
    /\ Len(target["inv1"]) = 5
    /\ dpc["inv2"] = "mkdir"

\* C18: a call that returned without error leaves its directory and every
\* ancestor existing; mkdir is called only on directories whose existence
\* test failed in this call, each once, with the parent existing, and a call
\* that returns never called it on a directory that existed.
C18_ChainProvisioned ==
    \A p \in Invocations :
        /\ (dpc[p] = "returned") =>
              /\ Chain(target[p]) \subseteq dirs
              /\ \A n \in 1..Len(mkdir_log[p]) : ~mkdir_log[p][n].present
        /\ \A n \in 1..Len(mkdir_log[p]) :
              /\ mkdir_log[p][n].dir \in missing[p]
              /\ mkdir_log[p][n].parent
              /\ \A m \in 1..Len(mkdir_log[p]) :
                    (m /= n) => mkdir_log[p][m].dir /= mkdir_log[p][n].dir
              /\ (n > 1) => dirname(mkdir_log[p][n].dir) = mkdir_log[p][n - 1].dir
        /\ IsTree(dirs)

C18_Witness ==
    /\ dpc["inv1"] = "returned"
    /\ Len(target["inv1"]) = 5
    /\ Len(mkdir_log["inv1"]) = 3
    /\ mkdir_log["inv1"][1].dir = <<"From_AWS", "2024", "01">>
    /\ dpc["inv2"] = "idle"

\* The steps a call of create_remote_directory can still take: two per
\* component left above the innermost directory (entry, existence test), the
\* entry at '/', and one mkdir step per active call.
DirRank(p) ==
    CASE dpc[p] = "entry" -> 3 * Len(Top(p)) + Len(stack[p]) + 1
      [] dpc[p] = "stat"  -> 3 * Len(Top(p)) + Len(stack[p])
      [] dpc[p] = "mkdir" -> Len(stack[p])
      [] OTHER            -> 0

\* the active calls are for remote_dir, its parent, its grandparent, ...
Climbs(p) ==
    \A n \in 1..Len(stack[p]) :
        /\ n <= Len(target[p]) + 1
        /\ stack[p][n] = SubSeq(target[p], 1, Len(target[p]) - (n - 1))

\* C25: create_remote_directory terminates for every absolute directory and
\* every directory tree: each step of a call lowers DirRank, which is never
\* negative; each recursive call is for the parent of its caller's directory,
\* is made only when that directory is not '/' and its existence test
\* raised, and there are never more recursive calls than remote_dir has
\* components.
C25_RecursionTerminates ==
    [][ \A p \in Invocations :
          /\ DirRank(p) >= 0 /\ DirRank(p)' >= 0
          /\ (ncalls'[p] = ncalls[p] /\ <<stack[p], dpc[p]>>' /= <<stack[p], dpc[p]>>) =>
                DirRank(p)' < DirRank(p)
          /\ (ncalls'[p] /= ncalls[p]) => DirRank(p)' = 3 * Len(target[p]') + 2
          /\ Climbs(p)'
          /\ Len(stack[p]') - 1 <= Len(target[p]')
          /\ (ncalls'[p] = ncalls[p] /\ Len(stack[p]') > Len(stack[p])) =>
                /\ Top(p) /= Root
                /\ ~Exists(dirs, Top(p))
                /\ Len(Top(p)') = Len(Top(p)) - 1
          /\ (dpc[p] = "stat" /\ Exists(dirs, Top(p)) /\ dpc[p]' /= "stat") =>
                Len(stack[p]') = Len(stack[p]) - 1
      ]_vars

\* the call for a five-component directory climbed to '/' through five
\* recursive calls, none of its ancestors existing, and has returned
C25_Witness ==
    /\ dpc["inv1"] = "returned"
    /\ Len(target["inv1"]) = 5
    /\ missing["inv1"] = Chain(target["inv1"])
    /\ Len(mkdir_log["inv1"]) = 5
    /\ stack["inv1"] = <<>>

====
